---- MODULE Spec2Model ----
(***************************************************************************)
(* Model of src/main.py: the FastAPI voice-agent service.                  *)
(*                                                                         *)
(* The handlers are coroutines on one asyncio event loop.  A coroutine     *)
(* gives up the loop only where it awaits something that is not ready.     *)
(* safe_transcribe_audio and safe_generate_llm_response contain no await   *)
(* (the SDK calls at lines 104 and 134/136 are synchronous), so the only   *)
(* suspension point that follows a change of state is `await client.post`  *)
(* at line 170, reached only when MURF_API_KEY is set.  Every handler is   *)
(* therefore one atomic step up to that await (or up to its response),     *)
(* and a second atomic step from the completion of the await to the        *)
(* response.  `await file.read()` precedes every read or write of state,   *)
(* so a suspension there is the same as a later arrival.                   *)
(*                                                                         *)
(* A Python str is a sequence of tokens here (a token is a character or a  *)
(* whole literal), so that + is \o, "" is << >> and strip() is computed.   *)
(***************************************************************************)
EXTENDS Integers, Sequences, FiniteSets, TLC

\* ------------------------------------------------------------------ bounds
\* The number of turns the store may hold, over all sessions: a chat request
\* is issued only while its two turns still fit.
MaxTurns == 4
\* The longest form text sent to POST /tts and POST /llm/query.
MaxTextLen == 1

\* ------------------------------------------------------------------ values
\* Python's None.
NoneVal == <<"<None>">>

\* bool(x) of a str or None.
Truthy(x) == x # << >> /\ x # NoneVal

SessionIds == {"s1", "s2"}

\* transcript.text of a successful transcription.
Texts == {<<"h", "i">>}

\* response.text of a successful generation.
LlmTexts == {<<"r">>}

AudioUrls == {<<"http://murf/audio.mp3">>}

Chars == {" ", "a"}

\* The form field `text`: every string over Chars up to MaxTextLen.
FormTexts == UNION {[1..n -> Chars] : n \in 0..MaxTextLen}

IsSpace(c) == c = " "

RECURSIVE lstrip(_)
lstrip(s) == IF s # << >> /\ IsSpace(Head(s)) THEN lstrip(Tail(s)) ELSE s

RECURSIVE rstrip(_)
rstrip(s) ==
  IF s # << >> /\ IsSpace(s[Len(s)]) THEN rstrip(SubSeq(s, 1, Len(s) - 1)) ELSE s

\* A slip: the text tested without strip().
stripForgotten(s) == s

\* str.strip()
strip(s) == rstrip(lstrip(s))

\* needle in haystack, for str
Contains(haystack, needle) ==
  \E i \in 0..(Len(haystack) - Len(needle)) :
    SubSeq(haystack, i + 1, i + Len(needle)) = needle

IsPrefix(s, t) == Len(s) <= Len(t) /\ SubSeq(t, 1, Len(s)) = s

\* dict.update
Update(d, e) ==
  [k \in DOMAIN d \cup DOMAIN e |-> IF k \in DOMAIN e THEN e[k] ELSE d[k]]

\* A slip: every turn stored under the role "user".
TurnAlwaysUser(role, content) == [role |-> "user", content |-> content]

\* {"role": role, "content": content}
Turn(role, content) == [role |-> role, content |-> content]

\* ------------------------------------------------ collaborators' results
\* What a collaborator does when it is called: it raises (msg is str(e)) or
\* it returns.  The unused fields hold NoneVal.
Raised(msg) == [kind |-> "raise", msg |-> msg, text |-> NoneVal, status_code |-> 0]

Returned(text) == [kind |-> "return", msg |-> NoneVal, text |-> text, status_code |-> 0]

HttpResponse(code, audioFile) ==
  [kind |-> "http", msg |-> NoneVal, text |-> audioFile, status_code |-> code]

\* transcriber.transcribe: an exception, an empty text, or a text.
SttResults == {Raised(<<"transcriber error">>)} \cup {Returned(t) : t \in Texts \cup {<< >>}}

\* model.generate_content: an exception, an empty text, or a text.
LlmResults == {Raised(<<"gemini error">>)} \cup {Returned(t) : t \in LlmTexts \cup {<< >>}}

\* client.post with timeout=30.0: httpx's timeout exceptions of the async
\* client carry an empty message (str(e) = ""); other exceptions carry one.
TtsResults ==
  {Raised(<< >>), Raised(<<"connect error">>)}
    \cup {HttpResponse(200, a) : a \in AudioUrls \cup {NoneVal}}
    \cup {HttpResponse(500, NoneVal)}

StatusText(code) == IF code = 200 THEN "200" ELSE "500"

\* ------------------------------------------------------------------ state
VARIABLES
  MURF_API_KEY,        \* bool(MURF_API_KEY)
  ASSEMBLYAI_API_KEY,  \* bool(ASSEMBLYAI_API_KEY)
  GEMINI_API_KEY,      \* bool(GEMINI_API_KEY)
  chat_histories,      \* session id -> list of turns
  pending,             \* slot -> the request suspended in client.post, or Idle
  last                 \* the request whose handler ran last, as it then stood

vars == <<MURF_API_KEY, ASSEMBLYAI_API_KEY, GEMINI_API_KEY, chat_histories, pending, last>>

keys == <<MURF_API_KEY, ASSEMBLYAI_API_KEY, GEMINI_API_KEY>>

\* The coroutines that may be suspended in `await client.post` at one time.
Slots == {1, 2}

NoBody == [none |-> TRUE]

\* A request: its endpoint, its inputs, the locals of its handler, the calls
\* it made to the collaborators (calls: the stages in order; llm_prompt: what
\* generate_content was given; tts_text: the text given to
\* safe_generate_tts), and its response once it has one.  stt_failed,
\* llm_failed and tts_failed record that the stage took its except branch;
\* ctx is the conversation_history given to safe_generate_llm_response;
\* before is the session's transcript when the chat handler was entered
\* (NoSession if the session did not exist); awaited tells that the
\* coroutine was resumed from client.post; stages is the log of the entries
\* to and returns from safe_transcribe_audio, safe_generate_llm_response and
\* safe_generate_tts; alone tells that no other request
\* has written to the session since this one entered its handler.
NoSession == << [role |-> "<absent>", content |-> NoneVal] >>

NewRequest(ep) ==
  [ep |-> ep, phase |-> "new", session_id |-> "", text |-> NoneVal,
   transcription |-> NoneVal, transcribe_error |-> NoneVal,
   llm_response |-> NoneVal, llm_error |-> NoneVal, ctx |-> << >>,
   llm_prompt |-> NoneVal, tts_text |-> NoneVal, audio_url |-> NoneVal, tts_error |-> NoneVal,
   stt_failed |-> FALSE, llm_failed |-> FALSE, tts_failed |-> FALSE,
   awaited |-> FALSE, alone |-> TRUE, stages |-> << >>,
   before |-> NoSession, calls |-> << >>, status_code |-> 0, body |-> NoBody]

Idle == NewRequest("idle")


\* What a coroutine suspended in client.post still holds: the locals its
\* handler reads after the await.  The form text, the context and the
\* payload are dead by then; a chat request keeps the record of the
\* transcript it found.
Frame(r) ==
  [r EXCEPT !.text = NoneVal, !.ctx = << >>,
            !.before = IF r.ep = "agent_chat" THEN @ ELSE NoSession,
            !.llm_prompt = NoneVal, !.tts_text = NoneVal]

\* The suspended chat requests on a session whose transcript another
\* request has just written (h before the write, h2 after) are no longer
\* alone on it.
Watch(p, h, h2) ==
  [s \in DOMAIN p |->
     IF /\ p[s].ep = "agent_chat"
        /\ (IF p[s].session_id \in DOMAIN h THEN h[p[s].session_id] ELSE NoSession)
             # (IF p[s].session_id \in DOMAIN h2 THEN h2[p[s].session_id] ELSE NoSession)
       THEN [p[s] EXCEPT !.alone = FALSE, !.before = NoSession]
       ELSE p[s]]

\* JSONResponse(content=body, status_code=code), or a returned dict (200).
Respond(r, code, body) == [r EXCEPT !.phase = "done", !.status_code = code, !.body = body]

\* ------------------------------------------------------- helper functions
fallback_messages ==
  [stt |-> <<"I'm having trouble hearing you right now. Could you please try again?">>,
   llm |-> <<"I'm having difficulty processing your request at the moment. Please try again later.">>,
   tts |-> <<"I'm having trouble generating audio right now. Here's my text response instead.">>,
   general |-> <<"I'm experiencing technical difficulties. Please try again in a moment.">>]

\* A slip: the fallback_message left out of the error body.
create_fallback_response_bare(message, error_type) ==
  [error |-> TRUE, error_type |-> error_type, message |-> message, audio_url |-> NoneVal]

create_fallback_response(message, error_type) ==
  [error |-> TRUE,
   error_type |-> error_type,
   message |-> message,
   fallback_message |->
     IF error_type \in DOMAIN fallback_messages
       THEN fallback_messages[error_type]
       ELSE fallback_messages["general"],
   audio_url |-> NoneVal]

\* A slip: an empty transcription returned as (None, None), no error raised.
safe_transcribe_audio_no_raise(res) ==
  IF ~ASSEMBLYAI_API_KEY
    THEN [text |-> NoneVal, error |-> <<"AssemblyAI API key not configured">>,
          called |-> FALSE, failed |-> TRUE]
  ELSE IF res.kind = "raise"
    THEN [text |-> NoneVal, error |-> res.msg, called |-> TRUE, failed |-> TRUE]
  ELSE IF ~Truthy(res.text)
    THEN [text |-> NoneVal, error |-> NoneVal, called |-> TRUE, failed |-> TRUE]
  ELSE [text |-> res.text, error |-> NoneVal, called |-> TRUE, failed |-> FALSE]

\* safe_transcribe_audio(audio_data), the transcriber doing `res` if called:
\* (text, None) or (None, str(e)).
safe_transcribe_audio(res) ==
  IF ~ASSEMBLYAI_API_KEY
    THEN [text |-> NoneVal, error |-> <<"AssemblyAI API key not configured">>,
          called |-> FALSE, failed |-> TRUE]
  ELSE IF res.kind = "raise"
    THEN [text |-> NoneVal, error |-> res.msg, called |-> TRUE, failed |-> TRUE]
  ELSE IF ~Truthy(res.text)
    THEN [text |-> NoneVal, error |-> <<"Transcription returned empty result">>,
          called |-> TRUE, failed |-> TRUE]
  ELSE [text |-> res.text, error |-> NoneVal, called |-> TRUE, failed |-> FALSE]

\* fallback_responses[0]
FallbackSentence ==
  <<"I apologize, but I'm having trouble processing your request right now. Could you please try again?">>

RoleLabel(message) == IF message.role = "user" THEN "User" ELSE "Assistant"

\* The context string of lines 129-133.
RECURSIVE ContextLines(_)
ContextLines(history) ==
  IF history = << >> THEN << >>
  ELSE <<RoleLabel(Head(history)), ": ">> \o Head(history).content \o <<"\n">>
         \o ContextLines(Tail(history))

BuildContext(prompt, history) ==
  ContextLines(history) \o <<"User: ">> \o prompt \o <<"\nAssistant:">>

\* safe_generate_llm_response(prompt, conversation_history), the model doing
\* `res` if called: (text, None) or (fallback_responses[0], str(e)).
\* A conversation_history of None is the empty list here: both are falsy.
safe_generate_llm_response(prompt, conversation_history, res) ==
  LET arg == IF Len(conversation_history) > 0
               THEN BuildContext(prompt, conversation_history)
               ELSE prompt
  IN
  IF ~GEMINI_API_KEY
    THEN [text |-> FallbackSentence, error |-> <<"Gemini API key not configured">>,
          called |-> FALSE, failed |-> TRUE, arg |-> arg]
  ELSE IF res.kind = "raise"
    THEN [text |-> FallbackSentence, error |-> res.msg,
          called |-> TRUE, failed |-> TRUE, arg |-> arg]
  ELSE IF ~Truthy(res.text)
    THEN [text |-> FallbackSentence, error |-> <<"LLM returned empty response">>,
          called |-> TRUE, failed |-> TRUE, arg |-> arg]
  ELSE [text |-> res.text, error |-> NoneVal,
        called |-> TRUE, failed |-> FALSE, arg |-> arg]

\* safe_generate_tts(text) up to `await client.post`: without a key it has
\* failed already, with one the request is posted and the coroutine waits.
safe_generate_tts_post(r, text) ==
  IF ~MURF_API_KEY
    THEN [r EXCEPT !.tts_text = text, !.audio_url = NoneVal,
                   !.tts_error = <<"Murf API key not configured">>,
                   !.tts_failed = TRUE, !.phase = "running",
                   !.stages = @ \o <<"synthesize", "synthesized">>]
    ELSE [r EXCEPT !.tts_text = text, !.calls = Append(@, "tts"),
                   !.stages = Append(@, "synthesize"),
                   !.phase = "suspended"]

\* safe_generate_tts(text) from the completion of client.post, which did
\* `res`: (audio_url, None) or (None, str(e)).
safe_generate_tts_result(r, res) ==
  IF res.kind = "raise"
    THEN [r EXCEPT !.audio_url = NoneVal, !.tts_error = res.msg,
                   !.tts_failed = TRUE, !.phase = "running", !.awaited = TRUE,
                   !.stages = Append(@, "synthesized")]
  ELSE IF res.status_code = 200
    THEN IF Truthy(res.text)
           THEN [r EXCEPT !.audio_url = res.text, !.tts_error = NoneVal,
                          !.phase = "running", !.awaited = TRUE,
                   !.stages = Append(@, "synthesized")]
           ELSE [r EXCEPT !.audio_url = NoneVal,
                          !.tts_error = <<"No audio URL in response">>,
                          !.tts_failed = TRUE, !.phase = "running", !.awaited = TRUE,
                   !.stages = Append(@, "synthesized")]
  ELSE [r EXCEPT !.audio_url = NoneVal,
                 !.tts_error = <<"TTS API returned status ", StatusText(res.status_code), ": ">>,
                 !.tts_failed = TRUE, !.phase = "running", !.awaited = TRUE,
                   !.stages = Append(@, "synthesized")]

\* transcription, transcribe_error = await safe_transcribe_audio(contents)
Transcribe(r, res) ==
  LET o == safe_transcribe_audio(res) IN
  [r EXCEPT !.transcription = o.text, !.transcribe_error = o.error,
            !.stt_failed = o.failed,
            !.stages = @ \o <<"transcribe", "transcribed">>,
            !.calls = IF o.called THEN Append(@, "stt") ELSE @]

\* A slip: a generation that failed is tried a second time.
GenerateRetrying(r, prompt, history, res) ==
  LET o == safe_generate_llm_response(prompt, history, res) IN
  [r EXCEPT !.llm_response = o.text, !.llm_error = o.error,
            !.llm_failed = o.failed, !.ctx = history,
            !.stages = IF o.failed
                         THEN @ \o <<"generate", "generated", "generate", "generated">>
                         ELSE @ \o <<"generate", "generated">>,
            !.llm_prompt = IF o.called THEN o.arg ELSE NoneVal,
            !.calls = IF o.called THEN Append(@, "llm") ELSE @]

\* llm_response, llm_error = await safe_generate_llm_response(prompt, history)
Generate(r, prompt, history, res) ==
  LET o == safe_generate_llm_response(prompt, history, res) IN
  [r EXCEPT !.llm_response = o.text, !.llm_error = o.error,
            !.llm_failed = o.failed, !.ctx = history,
            !.stages = @ \o <<"generate", "generated">>,
            !.llm_prompt = IF o.called THEN o.arg ELSE NoneVal,
            !.calls = IF o.called THEN Append(@, "llm") ELSE @]


\* ------------------------------------------------------- the session store
\* A slip: the list reset without the membership test.
InitSessionUnconditional(h, session_id) ==
  [k \in DOMAIN h \cup {session_id} |-> IF k = session_id THEN << >> ELSE h[k]]

\* if session_id not in chat_histories: chat_histories[session_id] = []
InitSession(h, session_id) ==
  IF session_id \in DOMAIN h THEN h
  ELSE [k \in DOMAIN h \cup {session_id} |-> IF k = session_id THEN << >> ELSE h[k]]

\* A slip: the turn put at the head of the list (insert(0, turn)).
AppendTurnAtHead(h, session_id, turn) == [h EXCEPT ![session_id] = <<turn>> \o @]

\* chat_histories[session_id].append(turn)
AppendTurn(h, session_id, turn) == [h EXCEPT ![session_id] = Append(@, turn)]

\* A slip: the slice [:-1] left out, so the context holds the current turn.
ExcludeCurrentForgotten(history) == history

\* chat_histories[session_id][:-1]
ExcludeCurrent(history) == SubSeq(history, 1, Len(history) - 1)

\* A slip: the whole store emptied (chat_histories.clear()).
DeleteEverySession(h, session_id) ==
  IF session_id \in DOMAIN h THEN [k \in {} |-> << >>] ELSE h

\* A slip: the list emptied (chat_histories[session_id] = []) instead of deleted.
DeleteSessionByEmptying(h, session_id) ==
  IF session_id \in DOMAIN h THEN [h EXCEPT ![session_id] = << >>] ELSE h

\* if session_id in chat_histories: del chat_histories[session_id]
DeleteSession(h, session_id) ==
  IF session_id \in DOMAIN h THEN [k \in DOMAIN h \ {session_id} |-> h[k]] ELSE h

\* The transcript of a session, NoSession if there is none.
Snapshot(h, session_id) == IF session_id \in DOMAIN h THEN h[session_id] ELSE NoSession

\* ------------------------------------------------------------ POST /tts
generate_tts_post(text) ==
  LET r == [NewRequest("generate_tts") EXCEPT !.text = text] IN
  IF ~Truthy(strip(text))
    THEN Respond(r, 400, create_fallback_response(<<"Empty text provided">>, "tts"))
    ELSE safe_generate_tts_post(r, text)

generate_tts_respond(r) ==
  IF Truthy(r.tts_error)
    THEN Respond(r, 500, create_fallback_response(r.tts_error, "tts"))
    ELSE Respond(r, 200, [audio_url |-> r.audio_url, error |-> FALSE])

\* ------------------------------------------------- POST /transcribe/file
transcribe_audio(sttRes) ==
  LET r == Transcribe(NewRequest("transcribe_audio"), sttRes) IN
  IF Truthy(r.transcribe_error)
    THEN Respond(r, 500, create_fallback_response(r.transcribe_error, "stt"))
    ELSE Respond(r, 200, [transcription |-> r.transcription, error |-> FALSE])

\* ------------------------------------------------------- POST /tts/echo
echo_tts_post(sttRes) ==
  LET r == Transcribe(NewRequest("echo_tts"), sttRes) IN
  IF Truthy(r.transcribe_error)
    THEN Respond(r, 500, create_fallback_response(r.transcribe_error, "stt"))
    ELSE safe_generate_tts_post(r, r.transcription)

echo_tts_respond(r) ==
  IF Truthy(r.tts_error)
    THEN Respond(r, 200,
           [transcription |-> r.transcription,
            error |-> TRUE,
            error_type |-> "tts",
            message |-> r.tts_error,
            fallback_message |->
              <<"I heard you say: ">> \o r.transcription \o <<" (Audio generation failed)">>,
            audio_url |-> NoneVal])
    ELSE Respond(r, 200,
           [audio_url |-> r.audio_url, transcription |-> r.transcription, error |-> FALSE])

\* ------------------------------------------------------ POST /llm/query
\* A slip: the flag taken from the wrong half of the pair.
HasFallbackInverted(error) == ~Truthy(error)

\* has_fallback: bool(error)
HasFallback(error) == Truthy(error)

llm_query(text, llmRes) ==
  LET r0 == [NewRequest("llm_query") EXCEPT !.text = text] IN
  IF ~Truthy(strip(text))
    THEN Respond(r0, 400, create_fallback_response(<<"Empty text provided">>, "llm"))
    ELSE LET r == Generate(r0, text, << >>, llmRes) IN
         IF Truthy(r.llm_error) /\ ~Truthy(r.llm_response)
           THEN Respond(r, 500, create_fallback_response(r.llm_error, "llm"))
           ELSE Respond(r, 200,
                  [response |-> r.llm_response, input |-> text, error |-> FALSE,
                   has_fallback |-> HasFallback(r.llm_error)])

\* ------------------------------------------------ POST /llm/query/audio
llm_query_audio_post(sttRes, llmRes) ==
  LET r == Transcribe(NewRequest("llm_query_audio"), sttRes) IN
  IF Truthy(r.transcribe_error)
    THEN Respond(r, 500, create_fallback_response(r.transcribe_error, "stt"))
    ELSE LET g == Generate(r, r.transcription, << >>, llmRes) IN
         safe_generate_tts_post(g, g.llm_response)

\* Lines 373-386 and 441-454: the flags laid over response_data.
WithFlags(r, response_data, prefix) ==
  LET d1 == IF Truthy(r.tts_error)
              THEN Update(response_data,
                     [audio_url |-> NoneVal, tts_error |-> TRUE,
                      fallback_message |-> prefix \o r.llm_response])
              ELSE Update(response_data, [audio_url |-> r.audio_url])
  IN IF Truthy(r.llm_error) THEN Update(d1, [has_llm_fallback |-> TRUE]) ELSE d1

llm_query_audio_respond(r) ==
  Respond(r, 200,
    WithFlags(r,
      [transcription |-> r.transcription, llm_response |-> r.llm_response, error |-> FALSE],
      <<"I'm having trouble generating audio right now. Here's my text response: ">>))

\* ------------------------------------------ POST /agent/chat/{session_id}
\* Lines 413-417: the session is created if absent and the user turn appended.
AppendUser(h, session_id, transcription) ==
  AppendTurn(InitSession(h, session_id), session_id, Turn("user", transcription))

\* A slip: the assistant turn kept out of the transcript when it is the
\* fallback sentence.
AppendAssistantUnlessFallback(h, session_id, llm_response) ==
  IF llm_response = FallbackSentence THEN h
  ELSE AppendTurn(h, session_id, Turn("assistant", llm_response))

\* Lines 426-428: the assistant turn is appended.
AppendAssistant(h, session_id, llm_response) ==
  AppendTurn(h, session_id, Turn("assistant", llm_response))

\* Lines 404-431: the request as it stands at `await client.post`, and the
\* store as it then is.
agent_chat_post(h, session_id, sttRes, llmRes) ==
  LET r == Transcribe([NewRequest("agent_chat") EXCEPT !.session_id = session_id,
                                                       !.before = Snapshot(h, session_id)],
                      sttRes)
  IN
  IF Truthy(r.transcribe_error)
    THEN [req |-> Respond(r, 500, create_fallback_response(r.transcribe_error, "stt")),
          store |-> h]
    ELSE LET h1 == AppendUser(h, session_id, r.transcription)
             g  == Generate(r, r.transcription, ExcludeCurrent(h1[session_id]), llmRes)
             h2 == AppendAssistant(h1, session_id, g.llm_response)
         IN [req |-> safe_generate_tts_post(g, g.llm_response), store |-> h2]

\* str(KeyError(session_id))
KeyErrorText(session_id) == <<"'", session_id, "'">>

\* Lines 433-462, with the store as it is when client.post has completed.
agent_chat_respond(h, r) ==
  IF r.session_id \notin DOMAIN h
    THEN Respond(r, 500, create_fallback_response(KeyErrorText(r.session_id), "general"))
    ELSE Respond(r, 200,
           WithFlags(r,
             [transcription |-> r.transcription, llm_response |-> r.llm_response,
              session_id |-> r.session_id, chat_history |-> h[r.session_id],
              error |-> FALSE],
             <<"I'm having trouble with audio generation. Here's my response: ">>))

\* ---------------------------------- GET /agent/chat/{session_id}/history
\* A slip: chat_histories[session_id] read without the membership test; the
\* KeyError is caught at line 481.
get_chat_history_unguarded(h, session_id) ==
  LET r == [NewRequest("get_chat_history") EXCEPT !.session_id = session_id] IN
  IF session_id \in DOMAIN h
    THEN Respond(r, 200,
           [session_id |-> session_id, chat_history |-> h[session_id], error |-> FALSE])
    ELSE Respond(r, 500, create_fallback_response(KeyErrorText(session_id), "general"))

get_chat_history(h, session_id) ==
  LET r == [NewRequest("get_chat_history") EXCEPT !.session_id = session_id] IN
  IF session_id \in DOMAIN h
    THEN Respond(r, 200,
           [session_id |-> session_id, chat_history |-> h[session_id], error |-> FALSE])
    ELSE Respond(r, 200,
           [session_id |-> session_id, chat_history |-> << >>, error |-> FALSE])

\* ------------------------------- DELETE /agent/chat/{session_id}/history
clear_chat_history(session_id) ==
  Respond([NewRequest("clear_chat_history") EXCEPT !.session_id = session_id], 200,
    [session_id |-> session_id, message |-> <<"Chat history cleared">>, error |-> FALSE])

\* ---------------------------------------------------------- POST /upload
\* The uploaded file: its name and its bytes.
UploadName == <<"a.wav">>

UploadBytes == <<"b1", "b2">>

\* open(upload_path, "wb") and f.write(contents): done, or an OSError.
WriteResults == {Returned(NoneVal), Raised(<<"[Errno 13] Permission denied">>)}

upload_audio(wrRes) ==
  LET r == NewRequest("upload_audio") IN
  IF wrRes.kind = "raise"
    THEN Respond(r, 500, create_fallback_response(wrRes.msg, "general"))
    ELSE Respond(r, 200,
           [filename |-> UploadName, content_type |-> <<"audio/wav">>,
            size |-> Len(UploadBytes), url |-> <<"/uploads/">> \o UploadName,
            error |-> FALSE])

\* ----------------------------------------------- POST /agent/session/new
\* str(uuid.uuid4())
Uuids == {<<"uuid-1">>, <<"uuid-2">>}

create_new_session(uuid) ==
  Respond(NewRequest("create_new_session"), 200, [session_id |-> uuid, error |-> FALSE])

\* ----------------------------------------------------------- GET /health
\* Nothing in the try block can raise (three bool() of a str or None, a
\* dict of booleans), so the handler's except branch is never taken.
health_check ==
  Respond(NewRequest("health_check"), 200,
    [status |-> "ok",
     api_status |-> [murf_api |-> MURF_API_KEY,
                     assemblyai_api |-> ASSEMBLYAI_API_KEY,
                     gemini_api |-> GEMINI_API_KEY],
     error |-> FALSE])

\* ------------------------------------------------------------------ steps
RECURSIVE SumLen(_, _)
SumLen(h, S) ==
  IF S = {} THEN 0
  ELSE LET s == CHOOSE x \in S : TRUE IN Len(h[s]) + SumLen(h, S \ {s})

\* The turns the store holds, over all sessions.
StoredTurns(h) == SumLen(h, DOMAIN h)

TypeOK ==
  /\ MURF_API_KEY \in BOOLEAN /\ ASSEMBLYAI_API_KEY \in BOOLEAN /\ GEMINI_API_KEY \in BOOLEAN
  /\ DOMAIN chat_histories \subseteq SessionIds
  /\ DOMAIN pending = Slots

\* The process after import: the keys are what the environment holds, the
\* store is empty, no request has arrived.
Init ==
  /\ MURF_API_KEY \in BOOLEAN
  /\ ASSEMBLYAI_API_KEY \in BOOLEAN
  /\ GEMINI_API_KEY \in BOOLEAN
  /\ chat_histories = [s \in {} |-> << >>]
  /\ pending = [s \in Slots |-> Idle]
  /\ last = Idle

FreeSlots == {s \in Slots : pending[s].ep = "idle"}

LowestFree == CHOOSE s \in FreeSlots : \A t \in FreeSlots : s <= t

\* The handler has run to its response or to its await: a request that
\* waits takes a place among the suspended ones.
SettleOn(p, r) ==
  /\ last' = r
  /\ IF r.phase = "suspended"
       THEN /\ FreeSlots # {}
            /\ pending' = [p EXCEPT ![LowestFree] = Frame(r)]
       ELSE pending' = p

Settle(r) == SettleOn(pending, r)

\* client.post of the request in `slot` has completed: it leaves the
\* suspended ones and its handler runs to the response.
Resumed(slot, r) ==
  /\ last' = r
  /\ pending' = [pending EXCEPT ![slot] = Idle]

\* safe_generate_tts returned without awaiting (no key): the handler goes on
\* to its response in the same step.
NotAwaiting(r) == r.phase = "running"

GenerateTts(text) ==
  /\ LET r == generate_tts_post(text)
     IN Settle(IF NotAwaiting(r) THEN generate_tts_respond(r) ELSE r)
  /\ UNCHANGED <<keys, chat_histories>>

GenerateTtsResume(slot, ttsRes) ==
  /\ pending[slot].ep = "generate_tts"
  /\ Resumed(slot, generate_tts_respond(safe_generate_tts_result(pending[slot], ttsRes)))
  /\ UNCHANGED <<keys, chat_histories>>

TranscribeAudio(sttRes) ==
  /\ Settle(transcribe_audio(sttRes))
  /\ UNCHANGED <<keys, chat_histories>>

EchoTts(sttRes) ==
  /\ LET r == echo_tts_post(sttRes)
     IN Settle(IF NotAwaiting(r) THEN echo_tts_respond(r) ELSE r)
  /\ UNCHANGED <<keys, chat_histories>>

EchoTtsResume(slot, ttsRes) ==
  /\ pending[slot].ep = "echo_tts"
  /\ Resumed(slot, echo_tts_respond(safe_generate_tts_result(pending[slot], ttsRes)))
  /\ UNCHANGED <<keys, chat_histories>>

LlmQuery(text, llmRes) ==
  /\ Settle(llm_query(text, llmRes))
  /\ UNCHANGED <<keys, chat_histories>>

LlmQueryAudio(sttRes, llmRes) ==
  /\ LET r == llm_query_audio_post(sttRes, llmRes)
     IN Settle(IF NotAwaiting(r) THEN llm_query_audio_respond(r) ELSE r)
  /\ UNCHANGED <<keys, chat_histories>>

LlmQueryAudioResume(slot, ttsRes) ==
  /\ pending[slot].ep = "llm_query_audio"
  /\ Resumed(slot, llm_query_audio_respond(safe_generate_tts_result(pending[slot], ttsRes)))
  /\ UNCHANGED <<keys, chat_histories>>

AgentChat(session_id, sttRes, llmRes) ==
  /\ StoredTurns(chat_histories) + 2 <= MaxTurns
  /\ LET o == agent_chat_post(chat_histories, session_id, sttRes, llmRes)
     IN /\ chat_histories' = o.store
        /\ SettleOn(Watch(pending, chat_histories, o.store),
                    IF NotAwaiting(o.req) THEN agent_chat_respond(o.store, o.req) ELSE o.req)
  /\ UNCHANGED keys

AgentChatResume(slot, ttsRes) ==
  /\ pending[slot].ep = "agent_chat"
  /\ Resumed(slot, agent_chat_respond(chat_histories,
                     safe_generate_tts_result(pending[slot], ttsRes)))
  /\ UNCHANGED <<keys, chat_histories>>

GetChatHistory(session_id) ==
  /\ Settle(get_chat_history(chat_histories, session_id))
  /\ UNCHANGED <<keys, chat_histories>>

ClearChatHistory(session_id) ==
  /\ chat_histories' = DeleteSession(chat_histories, session_id)
  /\ SettleOn(Watch(pending, chat_histories, DeleteSession(chat_histories, session_id)),
              clear_chat_history(session_id))
  /\ UNCHANGED keys

UploadAudio(wrRes) ==
  /\ Settle(upload_audio(wrRes))
  /\ UNCHANGED <<keys, chat_histories>>

CreateNewSession(uuid) ==
  /\ Settle(create_new_session(uuid))
  /\ UNCHANGED <<keys, chat_histories>>

HealthCheck ==
  /\ Settle(health_check)
  /\ UNCHANGED <<keys, chat_histories>>

Next ==
  \/ \E text \in FormTexts : GenerateTts(text)
  \/ \E slot \in Slots, ttsRes \in TtsResults : GenerateTtsResume(slot, ttsRes)
  \/ \E sttRes \in SttResults : TranscribeAudio(sttRes)
  \/ \E sttRes \in SttResults : EchoTts(sttRes)
  \/ \E slot \in Slots, ttsRes \in TtsResults : EchoTtsResume(slot, ttsRes)
  \/ \E text \in FormTexts, llmRes \in LlmResults : LlmQuery(text, llmRes)
  \/ \E sttRes \in SttResults, llmRes \in LlmResults : LlmQueryAudio(sttRes, llmRes)
  \/ \E slot \in Slots, ttsRes \in TtsResults : LlmQueryAudioResume(slot, ttsRes)
  \/ \E session_id \in SessionIds, sttRes \in SttResults, llmRes \in LlmResults :
       AgentChat(session_id, sttRes, llmRes)
  \/ \E slot \in Slots, ttsRes \in TtsResults : AgentChatResume(slot, ttsRes)
  \/ \E session_id \in SessionIds : GetChatHistory(session_id)
  \/ \E session_id \in SessionIds : ClearChatHistory(session_id)
  \/ \E wrRes \in WriteResults : UploadAudio(wrRes)
  \/ \E uuid \in Uuids : CreateNewSession(uuid)
  \/ HealthCheck

Spec == Init /\ [][Next]_vars


\* ================================================================ claims
\* The transcript a chat request found: empty if the session did not exist.
Prior(r) == IF r.before = NoSession THEN << >> ELSE r.before

\* A chat request that got past transcription, seen as its handler has just
\* run lines 404-431 (it waits in client.post, or has answered without
\* waiting).
ChatPosted ==
  /\ last.ep = "agent_chat"
  /\ ~last.stt_failed
  /\ ~last.awaited

Has(body, k) == k \in DOMAIN body

\* Every character of the text is a space (the empty text included).
IsBlank(text) == \A i \in 1..Len(text) : text[i] = " "

Answered(ep) == last.ep = ep /\ last.phase = "done"

\* C1: an echo request whose transcription succeeds and whose synthesis fails
\* is answered with the transcription, error = false and a fallback_message
\* that contains the transcribed text.
C1_EchoSynthesisFailureNotAnError ==
  (Answered("echo_tts") /\ ~last.stt_failed /\ last.tts_failed) =>
    /\ Has(last.body, "transcription")
    /\ last.body["transcription"] = last.transcription
    /\ last.body["error"] = FALSE
    /\ Has(last.body, "fallback_message")
    /\ Contains(last.body["fallback_message"], last.transcription)

\* C2: a chat request whose transcription succeeded is answered with status
\* 200, error = false, its transcription and its response text, whatever
\* other requests did on its session while it waited on synthesis.
C2_ChatNeverFailsAfterTranscription ==
  (Answered("agent_chat") /\ ~last.stt_failed) =>
    /\ last.status_code = 200
    /\ last.body["error"] = FALSE
    /\ Has(last.body, "transcription")
    /\ last.body["transcription"] = last.transcription
    /\ Has(last.body, "llm_response")
    /\ last.body["llm_response"] = last.llm_response

\* C3: the conversation context a chat request gives to generation is the
\* session's transcript as the request found it: it does not hold the
\* request's own user turn, and after a first exchange it is that exchange.
C3_ContextIsPriorTranscript ==
  ChatPosted =>
    /\ last.ctx = Prior(last)
    /\ Len(last.ctx) + 2 = Len(chat_histories[last.session_id])
    /\ \A i \in 1..Len(last.ctx) : last.ctx[i] = chat_histories[last.session_id][i]

\* C3 witness: the second chat request of a session, whose context is the
\* user turn and the assistant turn of the first.
C3_Witness ==
  /\ ChatPosted
  /\ Len(last.ctx) = 2
  /\ last.ctx[1].role = "user"
  /\ last.ctx[2].role = "assistant"
  /\ "llm" \in {last.calls[i] : i \in 1..Len(last.calls)}

\* C4: transcripts are append-only: in every step a session that exists
\* before and after keeps its transcript as a prefix of the new one, and a
\* session disappears only in the step of a deletion request for it.
C4_AppendOnly ==
  [][\A s \in DOMAIN chat_histories :
       IF s \in DOMAIN chat_histories'
         THEN IsPrefix(chat_histories[s], chat_histories'[s])
         ELSE last'.ep = "clear_chat_history" /\ last'.session_id = s]_vars

\* C4 witness: a session whose transcript has grown by a second exchange.
C4_Witness ==
  /\ ChatPosted
  /\ Len(Prior(last)) = 2
  /\ Len(chat_histories[last.session_id]) = 4

\* C5: a chat request whose transcription succeeds appends the user turn with
\* the transcribed text and then the assistant turn with the response, the
\* fallback sentence when generation failed.
C5_ChatAppendsUserThenAssistant ==
  ChatPosted =>
    /\ last.session_id \in DOMAIN chat_histories
    /\ chat_histories[last.session_id] =
         Prior(last) \o <<Turn("user", last.transcription),
                          Turn("assistant", last.llm_response)>>
    /\ last.transcription \in Texts
    /\ IF last.llm_failed
         THEN last.llm_response = FallbackSentence
         ELSE last.llm_response \in LlmTexts

\* C5 witness: a chat request whose generation failed, on a session that
\* held an exchange already.
C5_Witness ==
  /\ ChatPosted
  /\ last.llm_failed
  /\ Len(Prior(last)) = 2
  /\ chat_histories[last.session_id][4] = Turn("assistant", FallbackSentence)


CountRole(history, role) == Cardinality({i \in 1..Len(history) : history[i].role = role})

\* C6 (as stated): a chat request whose generation fails adds its user turn
\* and no assistant turn to the transcript.
C6_NoAssistantTurnWhenGenerationFails ==
  (ChatPosted /\ last.llm_failed) =>
    /\ CountRole(chat_histories[last.session_id], "user")
         = CountRole(Prior(last), "user") + 1
    /\ CountRole(chat_histories[last.session_id], "assistant")
         = CountRole(Prior(last), "assistant")

\* C6 (amended): a chat request whose transcription succeeds adds exactly one
\* user turn and exactly one assistant turn to the transcript, whether
\* generation succeeds or fails.
C6_OneUserOneAssistantTurn ==
  ChatPosted =>
    /\ Len(chat_histories[last.session_id]) = Len(Prior(last)) + 2
    /\ CountRole(chat_histories[last.session_id], "user")
         = CountRole(Prior(last), "user") + 1
    /\ CountRole(chat_histories[last.session_id], "assistant")
         = CountRole(Prior(last), "assistant") + 1

\* C6 witness: a chat request whose generation failed, with its two turns in
\* the transcript.
C6_Witness ==
  /\ ChatPosted
  /\ last.llm_failed
  /\ CountRole(chat_histories[last.session_id], "assistant") = 1
  /\ CountRole(chat_histories[last.session_id], "user") = 1

Stages(r) == {r.calls[i] : i \in 1..Len(r.calls)}

\* C7: in echo, generate-with-audio-input and chat, a transcription failure
\* is answered with an stt error (status 500) and nothing after it runs:
\* neither safe_generate_llm_response nor safe_generate_tts is entered, the
\* collaborators behind them get no call, and a chat request leaves its
\* session as it found it (not created, no turn appended).
C7_TranscriptionFailureAborts ==
  (last.ep \in {"echo_tts", "llm_query_audio", "agent_chat"} /\ last.stt_failed) =>
    /\ last.phase = "done"
    /\ ~last.awaited
    /\ last.status_code = 500
    /\ last.body["error"] = TRUE
    /\ last.body["error_type"] = "stt"
    /\ Stages(last) \subseteq {"stt"}
    /\ last.llm_response = NoneVal /\ last.llm_error = NoneVal
    /\ last.tts_text = NoneVal /\ last.tts_error = NoneVal
    /\ last.ep = "agent_chat" =>
         Snapshot(chat_histories, last.session_id) = last.before

\* C7 witness: a chat request whose transcription failed, on a session that
\* does not exist, with the transcriber called.
C7_Witness ==
  /\ last.ep = "agent_chat"
  /\ last.stt_failed
  /\ last.calls = <<"stt">>
  /\ last.before = NoSession
  /\ last.session_id \notin DOMAIN chat_histories

\* C8: an empty or whitespace-only text is refused with status 400 and an
\* error body before any collaborator is called: error_type llm and no
\* generation for POST /llm/query, no synthesis for POST /tts.
C8_BlankTextRejected ==
  (last.ep \in {"llm_query", "generate_tts"} /\ ~last.awaited /\ IsBlank(last.text)) =>
    /\ last.phase = "done"
    /\ last.status_code = 400
    /\ last.body["error"] = TRUE
    /\ last.calls = << >>
    /\ last.llm_response = NoneVal
    /\ last.tts_text = NoneVal
    /\ last.ep = "llm_query" => last.body["error_type"] = "llm"

\* C8 witness: POST /llm/query with a text of one space, refused.
C8_Witness ==
  /\ last.ep = "llm_query"
  /\ last.text = <<" ">>
  /\ last.status_code = 400

\* C9: POST /llm/query with a text that is not blank is never answered with
\* an error: when generation fails the response is the fallback sentence with
\* error = false, and has_fallback is true exactly when generation failed.
C9_GenerateOnlyFallsBack ==
  (last.ep = "llm_query" /\ ~IsBlank(last.text)) =>
    /\ last.phase = "done"
    /\ last.status_code = 200
    /\ last.body["error"] = FALSE
    /\ last.body["has_fallback"] = last.llm_failed
    /\ last.body["input"] = last.text
    /\ IF last.llm_failed
         THEN last.body["response"] = FallbackSentence
         ELSE last.body["response"] \in LlmTexts

\* C9 witness: POST /llm/query whose generation failed in the model's call.
C9_Witness ==
  /\ last.ep = "llm_query"
  /\ last.llm_failed
  /\ last.calls = <<"llm">>
  /\ last.body["has_fallback"] = TRUE

\* C10: POST /llm/query/audio, once transcription succeeds, attempts
\* synthesis on the text generation produced and is answered with
\* error = false, has_llm_fallback set exactly when generation failed and
\* tts_error set exactly when synthesis failed.
C10_AudioQueryFlags ==
  /\ (last.ep = "llm_query_audio" /\ ~last.stt_failed /\ ~last.awaited) =>
       last.tts_text = last.llm_response
  /\ (Answered("llm_query_audio") /\ ~last.stt_failed) =>
       /\ last.body["error"] = FALSE
       /\ Has(last.body, "has_llm_fallback") <=> last.llm_failed
       /\ Has(last.body, "tts_error") <=> last.tts_failed


\* C11: a history read or a deletion of a session that is not in the store
\* (never referenced, or deleted before) succeeds and leaves the store as it
\* was: the read answers an empty chat_history with error = false, the
\* deletion answers error = false.  So a second deletion of the same session
\* succeeds and changes nothing.
C11_AbsentSessionNoOps ==
  [][(/\ last'.ep \in {"get_chat_history", "clear_chat_history"}
      /\ last'.session_id \notin DOMAIN chat_histories)
       => /\ chat_histories' = chat_histories
          /\ last'.phase = "done"
          /\ last'.status_code = 200
          /\ last'.body["error"] = FALSE
          /\ last'.body["session_id"] = last'.session_id
          /\ last'.ep = "get_chat_history" => last'.body["chat_history"] = << >>]_vars

\* C11 witness: the history of an absent session read while the store holds
\* another session.
C11_Witness ==
  /\ last.ep = "get_chat_history"
  /\ last.session_id \notin DOMAIN chat_histories
  /\ DOMAIN chat_histories # {}
  /\ last.body["chat_history"] = << >>
  /\ last.body["error"] = FALSE


ErrorTypes == {"stt", "llm", "tts", "general"}

\* C12: every JSON response has a boolean error field, and every response
\* with error = true also has an error_type among stt, llm, tts, general, a
\* message and a fallback_message.
C12_ErrorBodyShape ==
  last.phase = "done" =>
    /\ Has(last.body, "error")
    /\ last.body["error"] \in BOOLEAN
    /\ last.body["error"] = TRUE =>
         /\ Has(last.body, "error_type")
         /\ last.body["error_type"] \in ErrorTypes
         /\ Has(last.body, "message")
         /\ Has(last.body, "fallback_message")

\* C12 witness: the general error body of a chat request answered after its
\* session was deleted.
C12_Witness ==
  /\ Answered("agent_chat")
  /\ last.awaited
  /\ last.body["error"] = TRUE
  /\ last.body["error_type"] = "general"
  /\ Has(last.body, "fallback_message")


\* A chat request answered after a successful transcription with no other
\* request having written to its session in between.
ChatAlone(r) ==
  /\ r.ep = "agent_chat"
  /\ r.phase = "done"
  /\ ~r.stt_failed
  /\ r.alone

\* C13: when no other request on the same session interleaves, the
\* chat_history in the result of a chat request whose transcription
\* succeeded is the turns the session held before the request, then this
\* request's user turn, then its assistant turn, and a history read that
\* follows returns the same list.
C13_ResultIsUpdatedTranscript ==
  [][/\ ChatAlone(last') =>
          /\ last'.status_code = 200
          /\ last'.body["chat_history"]
               = Prior(last') \o << Turn("user", last'.transcription),
                                    Turn("assistant", last'.llm_response) >>
     /\ (/\ ChatAlone(last)
         /\ last'.ep = "get_chat_history"
         /\ last'.session_id = last.session_id)
          => last'.body["chat_history"] = last.body["chat_history"]]_vars

\* C13 witness: a chat request resumed from the synthesis call, alone on a
\* session that already held a pair of turns, answers with four turns.
C13_Witness ==
  /\ ChatAlone(last)
  /\ last.awaited
  /\ Len(Prior(last)) = 2
  /\ Len(last.body["chat_history"]) = 4


\* The stages of each endpoint's pipeline, each as its entry and its return.
StageLog(ep) ==
  IF ep \in {"agent_chat", "llm_query_audio"}
    THEN <<"transcribe", "transcribed", "generate", "generated", "synthesize", "synthesized">>
  ELSE IF ep = "echo_tts" THEN <<"transcribe", "transcribed", "synthesize", "synthesized">>
  ELSE IF ep = "generate_tts" THEN <<"synthesize", "synthesized">>
  ELSE IF ep = "transcribe_audio" THEN <<"transcribe", "transcribed">>
  ELSE IF ep = "llm_query" THEN <<"generate", "generated">>
  ELSE << >>

\* The requests there are: the one whose handler ran last and the suspended.
Requests == {last} \cup {pending[s] : s \in Slots}

\* The request was answered before the end of its pipeline: its text was
\* rejected as empty, or its transcription failed.
Aborted(r) == r.phase = "done" /\ (r.status_code = 400 \/ r.stt_failed)

\* C14: within one request each stage is invoked at most once and in the
\* order transcribe, generate, synthesize, a stage being entered only after
\* the previous one has returned; a request that is not aborted has invoked
\* each stage of its pipeline exactly once.
C14_StagesOnceInOrder ==
  \A r \in Requests :
    /\ IsPrefix(r.stages, StageLog(r.ep))
    /\ r.phase = "suspended" => r.stages = SubSeq(StageLog(r.ep), 1, Len(StageLog(r.ep)) - 1)
    /\ (r.phase = "done" /\ ~Aborted(r)) => r.stages = StageLog(r.ep)
    /\ (r.phase = "done" /\ r.status_code = 400) => r.stages = << >>
    /\ (r.phase = "done" /\ r.stt_failed) => r.stages = <<"transcribe", "transcribed">>

\* C14 witness: a chat request answered after a failed generation and a
\* failed synthesis, with one chat request still in its synthesis call.
C14_Witness ==
  /\ Answered("agent_chat")
  /\ last.llm_failed /\ last.tts_failed /\ last.awaited
  /\ last.stages = StageLog("agent_chat")
  /\ \E s \in Slots : pending[s].ep = "agent_chat" /\ Len(pending[s].stages) = 5


\* The transcript is a sequence of (user, assistant) pairs.
IsPairs(t) ==
  /\ Len(t) % 2 = 0
  /\ \A i \in 1..Len(t) : t[i].role = IF i % 2 = 1 THEN "user" ELSE "assistant"

\* The chat requests suspended on a session.
SuspendedOn(session_id) ==
  {s \in Slots : pending[s].ep = "agent_chat" /\ pending[s].session_id = session_id}

\* C15: under any interleaving of concurrent chat requests on one session,
\* every transcript is a sequence of (user, assistant) pairs, no two
\* consecutive turns have the same role, and every step that lengthens a
\* transcript adds to its end the user turn and the assistant turn of the
\* one request whose handler ran in that step.
C15_TurnsOfOneRequestAdjacent ==
  /\ [](\A k \in DOMAIN chat_histories :
          /\ IsPairs(chat_histories[k])
          /\ \A i \in 1..(Len(chat_histories[k]) - 1) :
               chat_histories[k][i].role # chat_histories[k][i + 1].role)
  /\ [][\A k \in DOMAIN chat_histories' :
          Snapshot(chat_histories, k) # chat_histories'[k] =>
            /\ last'.ep = "agent_chat" /\ last'.session_id = k
            /\ chat_histories'[k]
                 = Prior(last') \o << [role |-> "user", content |-> last'.transcription],
                                      [role |-> "assistant", content |-> last'.llm_response] >>
            /\ Prior(last') = (IF k \in DOMAIN chat_histories THEN chat_histories[k] ELSE << >>)]_vars

\* C15 witness: two chat requests are in their synthesis calls on the same
\* session at once, and the transcript holds the two pairs.
C15_Witness ==
  \E k \in DOMAIN chat_histories :
    /\ SuspendedOn(k) = Slots
    /\ Len(chat_histories[k]) = 4
    /\ IsPairs(chat_histories[k])


\* C16: a chat request or a history deletion on one session leaves the
\* transcript of every other session as it was and neither creates nor
\* removes another session, whatever its stages did and whatever requests
\* are suspended; a request of any other endpoint leaves the store alone.
C16_SessionsIsolated ==
  [][\A B \in SessionIds :
       B # last'.session_id =>
         /\ (B \in DOMAIN chat_histories') = (B \in DOMAIN chat_histories)
         /\ Snapshot(chat_histories', B) = Snapshot(chat_histories, B)]_vars

\* C16 witness: a chat request whose generation failed has written to one
\* session while another session holds a transcript and a chat request is
\* suspended on it.
C16_Witness ==
  /\ last.ep = "agent_chat" /\ ~last.stt_failed /\ last.llm_failed
  /\ last.session_id \in DOMAIN chat_histories
  /\ \E B \in DOMAIN chat_histories :
       /\ B # last.session_id
       /\ Len(chat_histories[B]) = 2
       /\ SuspendedOn(B) # {}

====
